---- MODULE Spec2Model ----
(***************************************************************************)
(* A model of storyblok-assets-cleanup (src/storyblok_assets_cleanup.py):  *)
(* the paginated fetch (get_all_paginated) and the run of _main            *)
(* (load or fetch, classify, filter, confirm, backup and delete, persist). *)
(*                                                                         *)
(* Strings that the code takes apart or puts together (folder paths, file  *)
(* names, blacklisted words) are sequences of one-character strings.       *)
(* The folders of the space do not change, so the folder cache file always *)
(* holds them and is not a variable.                                       *)
(* Python values of mixed type (None, "", 0, "0", 7) are tagged strings:   *)
(* "None", "s:", "i:0", "s:0", "i:7".                                       *)
(***************************************************************************)
EXTENDS Integers, Sequences, FiniteSets, TLC

VARIABLES
    \* ---- get_all_paginated (one call) ----
    srv,               \* the server of this call: [mode, n, hdr]
    pag,               \* the locals of get_all_paginated
    pagPc,             \* "off" | "run" | "returned" | "failed"
    pagReqs,           \* history: the page numbers requested, in order
    pagResps,          \* history: the item lists of the responses, in order
    \* ---- _main (several runs of the process over one disk and one space) ----
    cfg,               \* the command line of the runs
    remote,            \* the space: the assets of the remote API
    folders,           \* the space: the asset folders of the remote API
    cacheExists,       \* path.exists(assets_cache_path)
    cache,             \* the content of the assets cache file
    backupFile,        \* per asset id: "none" | "partial" | "complete"
    pc,                \* the position of the run
    all_assets,        \* _main's all_assets
    assets_not_in_use, \* _main's assets_not_in_use: positions in all_assets
    idx,               \* the position of the running for loop
    count,             \* _main's count
    should_delete_assets, \* _main's should_delete_assets
    runs,              \* history: number of runs started
    prevDone,          \* history: the run before this one ran to its end
    loadedDeleted,     \* history: ids whose is_deleted was true when loaded
    classified,        \* history: ids the classifier was asked about, this run
    classifyCount,     \* history: per id, values the classifier gave, all runs
    backupTried,       \* history: ids backup_asset was called for, this run
    backupFailed,      \* history: ids whose download failed, this run
    delReq,            \* history: ids a DELETE was requested for, this run
    \* ---- StoryblokClient (one process) ----
    client,            \* the class attributes: space id, token, base url
    req,               \* the locals of the running call of request
    initCalls,         \* history: calls of init_client made
    initReturned,      \* history: calls of init_client that returned
    firstStored,       \* history: the attributes when the first such call returned
    reqCalls,          \* history: calls of request made
    sent,              \* history: HTTP requests the call has issued
    failed,            \* history: how many of them got a 429 or an exception
    gap,               \* history: the time slept before the latest retry of the call
    \* ---- get_folder_path_name, applied to the folders ----
    resolved,          \* the results got so far: records [id, r]
    \* ---- should_be_deleted, applied ----
    judged,           \* the latest call: its arguments and what it returned
    \* ---- save_json (one call, with the interrupts of the process) ----
    sj,                \* position, handler depth, document, bytes in the file
    \* ---- the CLASSIFY loop with its saves taken step by step ----
    cls                \* position, assets, those known, index, count, those classified

pagVars == <<srv, pag, pagPc, pagReqs, pagResps>>
diskVars == <<cacheExists, cache, backupFile>>
runVars == <<pc, all_assets, assets_not_in_use, idx, count, should_delete_assets>>
histVars == <<runs, prevDone, loadedDeleted, classified, classifyCount,
              backupTried, backupFailed, delReq>>
mainVars == <<cfg, remote, folders, diskVars, runVars, histVars>>
cliVars == <<client, req, initCalls, initReturned, firstStored, reqCalls, sent, failed,
             gap>>
\* The variables of the parts that _main and get_all_paginated leave alone.
resVars == <<resolved>>
eligVars == <<judged>>
saveVars == <<sj>>
clsVars == <<cls>>
auxVars == <<cliVars, resVars, eligVars, saveVars, clsVars>>
vars == <<pagVars, mainVars, auxVars>>

\* ------------------------------------------------------------------ bounds
MaxItems == 250     \* get_all_paginated: the largest collection served
MaxPages == 3       \* get_all_paginated: requests made to an arbitrary server
MaxAssets == 2      \* _main: assets in the space
MaxRuns == 2        \* _main: runs of the process

\* --------------------------------------------------------------- constants
PerPage == 100      \* "per_page": 100
SavePeriod == 25    \* count % 25 == 0
NoId == 0           \* item.get("id") is None

Min(a, b) == IF a < b THEN a ELSE b

\* ============================================================ get_all_paginated
\* The collection a server holds: n items with the distinct ids 1..n.
Collection(n) == [k \in 1..n |-> [id |-> k]]

\* {item.get("id") for item in new_items if item.get("id") is not None}
PageIds(items) == {items[k].id : k \in DOMAIN items} \ {NoId}

\* The "total" header of a response: absent, not a number, or a number.
NoHeader == [k |-> "absent", v |-> 0]
Garbage == [k |-> "garbage", v |-> 0]
Total(n) == [k |-> "int", v |-> n]

\* int(total_raw), None on ValueError/TypeError or when the header is absent.
ParseTotal(total_raw) ==
    IF total_raw.k = "int" THEN [set |-> TRUE, v |-> total_raw.v]
    ELSE [set |-> FALSE, v |-> 0]

PagStart ==
    [page |-> 1, all_items |-> <<>>,
     total_from_header |-> [set |-> FALSE, v |-> 0],
     previous_page_ids |-> [set |-> FALSE, ids |-> {}],
     looping |-> TRUE]

\* IsDuplicatePage with the test left out: what C10 must tell apart.
IsDuplicatePageNever(page, previous_page_ids, new_items) == FALSE

\* page > 1 and previous_page_ids is not None and current_ids
\*   and current_ids == previous_page_ids
IsDuplicatePage(page, previous_page_ids, new_items) ==
    /\ page > 1
    /\ previous_page_ids.set
    /\ PageIds(new_items) # {}
    /\ PageIds(new_items) = previous_page_ids.ids

\* NextPage taking a full page for the last one (<= for <): what C9 must tell
\* apart.
NextPageOffByOne(page, total, all_len, new_len) ==
    IF total.set /\ all_len >= total.v THEN 0
    ELSE IF new_len <= PerPage THEN 0
    ELSE page + 1

\* The page to request next, 0 for None (the loop ends).
NextPage(page, total, all_len, new_len) ==
    IF total.set /\ all_len >= total.v THEN 0
    ELSE IF new_len < PerPage THEN 0
    ELSE page + 1

\* PagStep with the test of the total before the duplicate test: what C24 must
\* tell apart.
PagStepTotalFirst(st, new_items, total_raw) ==
    LET total == IF st.total_from_header.set THEN st.total_from_header
                 ELSE ParseTotal(total_raw)
        all == st.all_items \o new_items
        nxt == NextPage(st.page, total, Len(all), Len(new_items))
    IN  IF ~(total.set /\ Len(all) >= total.v)
           /\ IsDuplicatePage(st.page, st.previous_page_ids, new_items)
        THEN [st EXCEPT !.total_from_header = total, !.page = 0,
                        !.looping = FALSE]
        ELSE [page |-> nxt, all_items |-> all,
              total_from_header |-> total,
              previous_page_ids |-> [set |-> TRUE, ids |-> PageIds(new_items)],
              looping |-> nxt # 0]

\* One turn of the while loop, from the response on.
PagStep(st, new_items, total_raw) ==
    LET total == IF st.total_from_header.set THEN st.total_from_header
                 ELSE ParseTotal(total_raw)
    IN  IF IsDuplicatePage(st.page, st.previous_page_ids, new_items)
        THEN [st EXCEPT !.total_from_header = total, !.page = 0,
                        !.looping = FALSE]
        ELSE LET all == st.all_items \o new_items
                 nxt == NextPage(st.page, total, Len(all), Len(new_items))
             IN  [page |-> nxt, all_items |-> all,
                  total_from_header |-> total,
                  previous_page_ids |-> [set |-> TRUE, ids |-> PageIds(new_items)],
                  looping |-> nxt # 0]

\* A well-behaved server: page p of the list, PerPage items a page.
GoodPage(list, p) ==
    SubSeq(list, Min((p - 1) * PerPage, Len(list)) + 1, Min(p * PerPage, Len(list)))

\* A whole call against a well-behaved server holding `list`.
RECURSIVE PagRun(_, _, _)
PagRun(st, list, hdr) ==
    IF ~st.looping THEN st.all_items
    ELSE PagRun(PagStep(st, GoodPage(list, st.page), hdr), list, hdr)

get_all_paginated(list, hdr) == PagRun(PagStart, list, hdr)

\* ------------------------------------------------- one call, step by step
IdLessPage == [k \in 1..PerPage |-> [id |-> NoId]]

\* A full page on which only the first item has an id.
MixedPage == [k \in 1..PerPage |-> [id |-> IF k = 1 THEN 1 ELSE NoId]]

\* What a server may answer to a request: a well-behaved server serves the page
\* asked for; any other server serves some page of the collection (the same one
\* again, an earlier one, a later one), a full page of items without ids or with
\* one id, or an empty page, with any "total" header.
ServerPages(s, page) ==
    IF s.mode = "good" THEN {GoodPage(Collection(s.n), page)}
    ELSE {GoodPage(Collection(s.n), q) : q \in 1..MaxPages} \cup {IdLessPage, MixedPage, <<>>}

ServerTotals(s) ==
    IF s.mode = "good" THEN {IF s.hdr = "exact" THEN Total(s.n) ELSE NoHeader}
    ELSE {NoHeader, Garbage, Total(s.n), Total(PerPage)}

Servers ==
    [mode : {"good"}, n : 0..MaxItems, hdr : {"none", "exact"}]
    \cup [mode : {"any"}, n : {MaxItems}, hdr : {"none"}]

PagOff ==
    /\ srv = [mode |-> "good", n |-> 0, hdr |-> "none"]
    /\ pag = PagStart
    /\ pagPc = "off"
    /\ pagReqs = <<>>
    /\ pagResps = <<>>

\* One turn of the loop: the request of pag.page and the handling of its response.
PagTurn ==
    /\ pagPc = "run"
    /\ pag.looping
    /\ srv.mode = "any" => pag.page <= MaxPages
    /\ \E new_items \in ServerPages(srv, pag.page), total_raw \in ServerTotals(srv) :
          /\ pag' = PagStep(pag, new_items, total_raw)
          /\ pagResps' = Append(pagResps, new_items)
    /\ pagReqs' = Append(pagReqs, pag.page)
    /\ UNCHANGED <<srv, pagPc>>

\* StoryblokClient.request raises, raise_for_status raises, or the KeyError.
PagFail ==
    /\ pagPc = "run"
    /\ pag.looping
    /\ srv.mode = "any" => pag.page <= MaxPages
    /\ pagReqs' = Append(pagReqs, pag.page)
    /\ pagPc' = "failed"
    /\ UNCHANGED <<srv, pag, pagResps>>

\* return all_items
PagReturn ==
    /\ pagPc = "run"
    /\ ~pag.looping
    /\ pagPc' = "returned"
    /\ UNCHANGED <<srv, pag, pagReqs, pagResps>>

\* ======================================================================= _main
\* ------------------------------------------------------------------- strings
Slash == <<"/">>

StartsWith(s, pre) == Len(s) >= Len(pre) /\ SubSeq(s, 1, Len(pre)) = pre
EndsWith(s, suf) ==
    Len(s) >= Len(suf) /\ SubSeq(s, Len(s) - Len(suf) + 1, Len(s)) = suf

\* Python's `word in filename` for strings.
IsSubstring(word, s) ==
    \E k \in 0..(Len(s) - Len(word)) : SubSeq(s, k + 1, k + Len(word)) = word

\* InList by prefix: what C18 must tell apart.
InListByPrefix(x, list) == \E k \in DOMAIN list : StartsWith(x, list[k])

InList(x, list) == \E k \in DOMAIN list : list[k] = x

\* -------------------------------------------------------------- folder paths
\* folder["parent_id"] in [None, "", 0, "0"]
RootSentinels == {"None", "s:", "i:0", "s:0"}

FolderIds(fs) == {fs[k].id : k \in DOMAIN fs}

\* folder_ids_to_folder[folder_id]: a later folder of the same id replaces an
\* earlier one in the dict comprehension.
FolderById(fs, folder_id) ==
    LET last == CHOOSE k \in DOMAIN fs :
                    /\ fs[k].id = folder_id
                    /\ \A j \in DOMAIN fs : fs[j].id = folder_id => j <= k
    IN  fs[last]

\* get_folder_path_name without the parent's path: what C15 must tell apart.
get_folder_path_name_flat(fs, folder_id, fuel) ==
    [ok |-> TRUE, path |-> Slash \o FolderById(fs, folder_id).name, error |-> "none"]

\* get_folder_path_name(folder_id). `fuel` is the depth left: a chain of parents
\* longer than the number of folders is a cycle, on which the recursion goes on
\* until the interpreter ends it with RecursionError ([ok |-> FALSE]).
RECURSIVE get_folder_path_name(_, _, _)
get_folder_path_name(fs, folder_id, fuel) ==
    LET folder == FolderById(fs, folder_id)
        name == folder.name
    IN  IF folder.parent_id \in RootSentinels
        THEN [ok |-> TRUE, path |-> Slash \o name, error |-> "none"]
        ELSE IF folder.parent_id \notin FolderIds(fs)
        THEN [ok |-> TRUE, path |-> Slash \o name, error |-> "none"]
        ELSE IF fuel = 0
        THEN [ok |-> FALSE, path |-> <<>>, error |-> "RecursionError"]
        ELSE LET parent_path == get_folder_path_name(fs, folder.parent_id, fuel - 1)
             IN  IF parent_path.ok
                 THEN [ok |-> TRUE, path |-> parent_path.path \o Slash \o name,
                       error |-> "none"]
                 ELSE parent_path

\* The keys of folder_id_to_path_name: every folder id, and None.
PathKeys(fs) == FolderIds(fs) \cup {"None"}

\* folder_id_to_path_name[key]
folder_id_to_path_name(fs, key) ==
    IF key = "None" THEN [ok |-> TRUE, path |-> Slash, error |-> "none"]
    ELSE get_folder_path_name(fs, key, Len(fs))

\* Building folder_id_to_path_name raised (a cycle of parents).
PathsFail(fs) == \E id \in FolderIds(fs) : ~get_folder_path_name(fs, id, Len(fs)).ok

\* ---------------------------------------------------------------- eligibility
should_be_deleted(c, asset_path_name, filename) ==
    IF InList(asset_path_name, c.ignore_path) THEN FALSE
    ELSE IF \E k \in DOMAIN c.ignore_word :
                c.ignore_word[k] # <<>> /\ IsSubstring(c.ignore_word[k], filename)
    THEN FALSE
    ELSE TRUE

\* ------------------------------------------------------------- the space
\* The asset of id k as the API lists it.
RemoteAsset(k) ==
    [id |-> k,
     asset_folder_id |-> IF k % 2 = 0 THEN "i:1" ELSE "None",
     filename |-> IF k % 3 = 0 THEN <<"x", "l", "o">> ELSE <<"a">>]

RemoteFolders == << [id |-> "i:1", name |-> <<"F">>, parent_id |-> "None"] >>

\* An item of /assets as _main first holds it: none of the keys _main adds.
Fresh(item) ==
    [id |-> item.id, asset_folder_id |-> item.asset_folder_id,
     filename |-> item.filename,
     is_in_use |-> "absent", to_be_deleted |-> "absent",
     is_deleted |-> "absent", backed_up_to |-> "absent"]

FreshAll(items) == [k \in DOMAIN items |-> Fresh(items[k])]

\* ------------------------------------------------------------ the command line
Blacklists ==
    { [ignore_path |-> <<>>, ignore_word |-> <<>>],
      [ignore_path |-> << <<"/", "F">> >>, ignore_word |-> <<>>],
      [ignore_path |-> <<>>, ignore_word |-> << <<>>, <<"l", "o">> >>] }

\* --delete with the answer to the prompt (asked only with --delete), --backup
\* with --continue-download-on-failure (read only with --backup), --cache,
\* --ignore-path, --ignore-word.
UnreadConfigs ==
    { c \in [delete : BOOLEAN, answer : BOOLEAN, backup : BOOLEAN, cont : BOOLEAN,
             use_cache : BOOLEAN,
             ignore_path : {bl.ignore_path : bl \in Blacklists},
             ignore_word : {bl.ignore_word : bl \in Blacklists}] :
         (~c.delete /\ c.answer) \/ (~c.backup /\ ~c.cont) }

Configs ==
    { [delete |-> d, answer |-> a, backup |-> b, cont |-> c, use_cache |-> u,
       ignore_path |-> bl.ignore_path, ignore_word |-> bl.ignore_word] :
         d \in BOOLEAN, a \in BOOLEAN, b \in BOOLEAN, c \in BOOLEAN,
         u \in BOOLEAN, bl \in Blacklists } \ UnreadConfigs

\* A blacklisted path must start with a slash and not end with one.
InvalidPath(path) == ~StartsWith(path, Slash) \/ EndsWith(path, Slash)

\* --------------------------------------------------------------- the run
B(b) == IF b THEN "true" ELSE "false"

Ids(assets) == {assets[k].id : k \in DOMAIN assets}
AssetIds == 1..MaxAssets

Active == pc \notin {"idle", "done", "aborted"}

\* The asset the ACT loop is at.
Cur == all_assets[assets_not_in_use[idx]]

\* _main up to ensure_cache_dir_exists: the arguments, and the check of the
\* blacklisted paths.
StartRun ==
    /\ ~Active
    /\ runs < MaxRuns
    /\ runs' = runs + 1
    /\ prevDone' = (pc = "done")
    /\ pc' = IF \E k \in DOMAIN cfg.ignore_path : InvalidPath(cfg.ignore_path[k])
             THEN "aborted" ELSE "load"
    /\ should_delete_assets' = cfg.delete
    /\ all_assets' = <<>>
    /\ assets_not_in_use' = <<>>
    /\ idx' = 1
    /\ count' = 0
    /\ loadedDeleted' = {}
    /\ classified' = {}
    /\ backupTried' = {}
    /\ backupFailed' = {}
    /\ delReq' = {}
    /\ UNCHANGED <<cfg, remote, folders, diskVars, classifyCount, pagVars, auxVars>>

\* path.exists(assets_cache_path) and use_cache
FromCache == cacheExists /\ cfg.use_cache

\* LOAD_OR_FETCH: the cache file, or every page of /assets, saved.
Load ==
    /\ pc = "load"
    /\ IF FromCache
       THEN /\ all_assets' = cache
            /\ UNCHANGED diskVars
       ELSE /\ all_assets' = FreshAll(get_all_paginated(remote, Total(Len(remote))))
            /\ cache' = all_assets'
            /\ cacheExists' = TRUE
            /\ UNCHANGED backupFile
    /\ loadedDeleted' =
          {all_assets'[k].id : k \in {j \in DOMAIN all_assets' :
                                          all_assets'[j].is_deleted = "true"}}
    /\ pc' = "classify"
    /\ idx' = 1
    /\ count' = 0
    /\ UNCHANGED <<cfg, remote, folders, assets_not_in_use, should_delete_assets,
                   runs, prevDone, classified, classifyCount,
                   backupTried, backupFailed, delReq, pagVars, auxVars>>

\* A request of the fetch fails: the exception ends the run.
LoadFail ==
    /\ pc = "load"
    /\ ~FromCache
    /\ pc' = "aborted"
    /\ UNCHANGED <<cfg, remote, folders, diskVars, all_assets, assets_not_in_use,
                   idx, count, should_delete_assets, histVars, pagVars, auxVars>>

\* NeedsClassify without the test of the key: what C7 must tell apart.
NeedsClassifyAlways(asset) == TRUE

\* not ("is_in_use" in asset)
NeedsClassify(asset) == asset.is_in_use = "absent"

\* One turn of the CLASSIFY loop.
Classify ==
    /\ pc = "classify"
    /\ idx <= Len(all_assets)
    /\ LET asset == [all_assets[idx] EXCEPT !.to_be_deleted = "false"]
       IN  IF ~NeedsClassify(asset)
           THEN /\ all_assets' = [all_assets EXCEPT ![idx] = asset]
                /\ UNCHANGED <<count, diskVars, classified, classifyCount>>
           ELSE /\ \E used \in BOOLEAN :
                      all_assets' =
                          [all_assets EXCEPT ![idx] = [asset EXCEPT !.is_in_use = B(used)]]
                /\ count' = count + 1
                /\ IF count' % SavePeriod = 0
                   THEN cache' = all_assets' /\ cacheExists' = TRUE
                   ELSE UNCHANGED <<cache, cacheExists>>
                /\ classified' = classified \cup {asset.id}
                /\ classifyCount' =
                       [classifyCount EXCEPT ![asset.id] = classifyCount[asset.id] + 1]
                /\ UNCHANGED backupFile
    /\ idx' = idx + 1
    /\ UNCHANGED <<cfg, remote, folders, pc, assets_not_in_use, should_delete_assets,
                   runs, prevDone, loadedDeleted, backupTried,
                   backupFailed, delReq, pagVars, auxVars>>

\* The request of is_asset_in_use fails: the exception ends the run.
ClassifyFail ==
    /\ pc = "classify"
    /\ idx <= Len(all_assets)
    /\ NeedsClassify(all_assets[idx])
    /\ all_assets' = [all_assets EXCEPT ![idx].to_be_deleted = "false"]
    /\ classified' = classified \cup {all_assets[idx].id}
    /\ pc' = "aborted"
    /\ UNCHANGED <<cfg, remote, folders, diskVars, assets_not_in_use, idx, count,
                   should_delete_assets, runs, prevDone, loadedDeleted,
                   classifyCount, backupTried, backupFailed, delReq, pagVars, auxVars>>

\* NotInUse without the test of is_in_use: what C8 must tell apart.
NotInUseEveryAsset(asset) == asset.is_deleted # "true"

\* not asset["is_in_use"] and not asset.get("is_deleted", False)
NotInUse(asset) == asset.is_in_use # "true" /\ asset.is_deleted # "true"

\* assets_not_in_use, as the positions in all_assets of the dicts it holds.
RECURSIVE NotInUseFrom(_, _)
NotInUseFrom(assets, k) ==
    IF k > Len(assets) THEN <<>>
    ELSE (IF NotInUse(assets[k]) THEN <<k>> ELSE <<>>) \o NotInUseFrom(assets, k + 1)

\* RESOLVE_PATHS and FILTER, to the end of the summary. A cycle of folders
\* (RecursionError, before any asset is filtered) or an asset_folder_id that is
\* no key of folder_id_to_path_name (KeyError, at that asset) ends the run.
Filter ==
    /\ pc = "classify"
    /\ idx > Len(all_assets)
    /\ LET niu == NotInUseFrom(all_assets, 1)
           noKey == {j \in DOMAIN niu :
                        all_assets[niu[j]].asset_folder_id \notin PathKeys(folders)}
           \* the assets of assets_not_in_use the loop gets through
           upto == IF PathsFail(folders) THEN 0
                   ELSE IF noKey = {} THEN Len(niu)
                   ELSE (CHOOSE j \in noKey : \A i \in noKey : j <= i) - 1
       IN  /\ assets_not_in_use' = niu
           /\ pc' = IF PathsFail(folders) \/ noKey # {} THEN "aborted" ELSE "confirm"
           /\ all_assets' =
                [k \in DOMAIN all_assets |->
                   IF \E j \in 1..upto : niu[j] = k
                   THEN [all_assets[k] EXCEPT !.to_be_deleted =
                           B(should_be_deleted(cfg,
                               folder_id_to_path_name(folders,
                                   all_assets[k].asset_folder_id).path,
                               all_assets[k].filename))]
                   ELSE all_assets[k]]
    /\ UNCHANGED <<cfg, remote, folders, diskVars, idx, count, should_delete_assets,
                   histVars, pagVars, auxVars>>

\* Confirmed without the prompt's answer: what C5 must tell apart.
ConfirmedUnasked(requested, answer) == requested

\* should_delete_assets after the prompt: input(message) == "y" when deletion
\* was requested; the other prompts only wait for a key.
Confirmed(requested, answer) == IF requested THEN answer ELSE FALSE

\* CONFIRM: the prompt.
Confirm ==
    /\ pc = "confirm"
    /\ should_delete_assets' = Confirmed(should_delete_assets, cfg.answer)
    /\ pc' = "act"
    /\ idx' = 1
    /\ UNCHANGED <<cfg, remote, folders, diskVars, all_assets, assets_not_in_use,
                   count, histVars, pagVars, auxVars>>

\* ActOrder with the delete before the backup: what C3 must tell apart.
ActOrderDeleteFirst == <<"act_delete", "act_backup", "act_save">>

\* The order of the body of the ACT loop: backup, delete, save.
ActOrder == <<"act_backup", "act_delete", "act_save">>

\* The step after step p of the body; "act" is the head of the loop.
AfterStep(p) ==
    LET k == CHOOSE j \in DOMAIN ActOrder : ActOrder[j] = p
    IN  IF k = Len(ActOrder) THEN "act" ELSE ActOrder[k + 1]

\* The position after step p: the next step, or the next asset.
Advance(p) ==
    /\ pc' = AfterStep(p)
    /\ idx' = IF AfterStep(p) = "act" THEN idx + 1 ELSE idx

\* SkipsIneligible without the test: what C2 must tell apart.
SkipsIneligibleNever(asset) == FALSE

\* if not asset["to_be_deleted"]: continue
SkipsIneligible(asset) == asset.to_be_deleted # "true"

\* The head of the ACT loop: the end of the run, an asset skipped, or the body.
ActHead ==
    /\ pc = "act"
    /\ IF idx > Len(assets_not_in_use)
       THEN pc' = "done" /\ UNCHANGED idx
       ELSE IF SkipsIneligible(Cur)
       THEN pc' = "act" /\ idx' = idx + 1
       ELSE pc' = ActOrder[1] /\ UNCHANGED idx
    /\ UNCHANGED <<cfg, remote, folders, diskVars, all_assets, assets_not_in_use,
                   count, should_delete_assets, histVars, pagVars, auxVars>>

\* backup_asset returning None on a failed download whatever the flag: what C4
\* must tell apart.
backup_asset_never_aborting(file, continue_download_on_failure) ==
    IF file # "none"
    THEN {[file |-> file, ret |-> "path", failed |-> FALSE]}
    ELSE {[file |-> "complete", ret |-> "path", failed |-> FALSE],
          [file |-> "none", ret |-> "None", failed |-> TRUE],
          [file |-> "none", ret |-> "raise", failed |-> TRUE],
          [file |-> "partial", ret |-> "raise", failed |-> TRUE]}

\* backup_asset, given the state of the file at the asset's backup path: the
\* outcomes it can have, each the file afterwards and what the call does
\* ("path": returns file_path, "None": returns None, "exit": abort(),
\* "raise": an exception of requests.get or of the copy, or an interruption).
backup_asset(file, continue_download_on_failure) ==
    IF file # "none"
    THEN \* path.exists(file_path): the download is skipped
         {[file |-> file, ret |-> "path", failed |-> FALSE]}
    ELSE {\* the download and the copy complete
          [file |-> "complete", ret |-> "path", failed |-> FALSE],
          \* not response.ok
          [file |-> "none",
           ret |-> IF continue_download_on_failure THEN "None" ELSE "exit",
           failed |-> TRUE],
          \* requests.get raises
          [file |-> "none", ret |-> "raise", failed |-> TRUE],
          \* the file is open and the copy does not reach its end
          [file |-> "partial", ret |-> "raise", failed |-> TRUE]}

\* if backup_assets: backup_asset(...), and backed_up_to when it returned a path.
ActBackup ==
    /\ pc = "act_backup"
    /\ IF ~cfg.backup
       THEN /\ Advance("act_backup")
            /\ UNCHANGED <<all_assets, backupFile, backupTried, backupFailed>>
       ELSE \E r \in backup_asset(backupFile[Cur.id], cfg.cont) :
              /\ backupFile' = [backupFile EXCEPT ![Cur.id] = r.file]
              /\ backupTried' = backupTried \cup {Cur.id}
              /\ backupFailed' = IF r.failed THEN backupFailed \cup {Cur.id}
                                 ELSE backupFailed
              /\ all_assets' =
                    IF r.ret = "path"
                    THEN [all_assets EXCEPT ![assets_not_in_use[idx]].backed_up_to = "path"]
                    ELSE all_assets
              /\ IF r.ret \in {"exit", "raise"}
                 THEN pc' = "aborted" /\ UNCHANGED idx
                 ELSE Advance("act_backup")
    /\ UNCHANGED <<cfg, remote, folders, cacheExists, cache, assets_not_in_use, count,
                   should_delete_assets, runs, prevDone, loadedDeleted, classified,
                   classifyCount, delReq, pagVars, auxVars>>

\* The space without the asset of this id.
RECURSIVE Without(_, _)
Without(list, id) ==
    IF list = <<>> THEN <<>>
    ELSE (IF Head(list).id = id THEN <<>> ELSE <<Head(list)>>) \o Without(Tail(list), id)

\* raise_for_status that never raises: what C20 must tell apart.
RaisesForStatusNever(ok) == FALSE

\* response.raise_for_status() raises unless the response is a success.
RaisesForStatus(ok) == ~ok

\* if should_delete_assets: the DELETE request, raise_for_status, is_deleted.
\* The request succeeds only for an asset the space still holds, and may fail
\* for any asset.
ActDelete ==
    /\ pc = "act_delete"
    /\ IF ~should_delete_assets
       THEN /\ Advance("act_delete")
            /\ UNCHANGED <<all_assets, remote, delReq>>
       ELSE /\ delReq' = delReq \cup {Cur.id}
            /\ \E ok \in {Cur.id \in Ids(remote), FALSE} :
                  /\ remote' = IF ok THEN Without(remote, Cur.id) ELSE remote
                  /\ IF RaisesForStatus(ok)
                     THEN /\ pc' = "aborted"
                          /\ UNCHANGED <<all_assets, idx>>
                     ELSE /\ all_assets' =
                               [all_assets EXCEPT ![assets_not_in_use[idx]].is_deleted = "true"]
                          /\ Advance("act_delete")
    /\ UNCHANGED <<cfg, folders, diskVars, assets_not_in_use, count,
                   should_delete_assets, runs, prevDone, loadedDeleted,
                   classified, classifyCount, backupTried, backupFailed, pagVars, auxVars>>

\* if backup_assets or should_delete_assets: save_json(assets_cache_path, all_assets)
ActSave ==
    /\ pc = "act_save"
    /\ IF cfg.backup \/ should_delete_assets
       THEN cache' = all_assets /\ cacheExists' = TRUE
       ELSE UNCHANGED <<cache, cacheExists>>
    /\ Advance("act_save")
    /\ UNCHANGED <<cfg, remote, folders, backupFile, all_assets, assets_not_in_use,
                   count, should_delete_assets, histVars, pagVars, auxVars>>

\* The process is interrupted (KeyboardInterrupt, caught in main) or killed.
Crash ==
    /\ Active
    /\ pc' = "aborted"
    /\ UNCHANGED <<cfg, remote, folders, diskVars, all_assets, assets_not_in_use,
                   idx, count, should_delete_assets, histVars, pagVars, auxVars>>

\* ------------------------------------------------------------ StoryblokClient
MaxRetriesArg == 3      \* the largest max_retries a call is made with
MaxCalls == 2           \* calls of init_client, and of request, in one behaviour

TicksPerSecond == 10    \* time is counted in tenths of a second
BaseDelay == 10         \* base_delay = 1.0 s
FirstDelay == 1         \* the 0.1 s slept before the first attempt
TooManyRequests == 429

RECURSIVE Pow2(_)
Pow2(n) == IF n = 0 THEN 1 ELSE 2 * Pow2(n - 1)

_REGION_TO_BASE_URLS ==
    [region \in {"eu", "us", "ca", "au", "cn"} |->
        CASE region = "eu" -> "https://mapi.storyblok.com"
          [] region = "us" -> "https://api-us.storyblok.com"
          [] region = "ca" -> "https://api-ca.storyblok.com"
          [] region = "au" -> "https://api-ap.storyblok.com"
          [] region = "cn" -> "https://app.storyblokchina.cn"]

\* Python truthiness of a str | None attribute.
Truthy(v) == v \notin {"None", ""}

is_initialized(c) == Truthy(c.space_id) /\ Truthy(c.token) /\ Truthy(c.base_url)

\* The class attributes before any call.
ClientStart == [space_id |-> "None", token |-> "None", base_url |-> "None"]

NoOutcome == [kind |-> "none", status |-> 0, retry_after |-> [present |-> FALSE, text |-> <<>>]]
NoGap == [after |-> NoOutcome, attempt |-> 0, wait |-> 0]
ReqIdle == [pc |-> "idle", attempt |-> 0, max_retries |-> 0, pending |-> 0,
            last |-> NoOutcome, result |-> [kind |-> "none", carries |-> NoOutcome]]

CliOff ==
    /\ client = ClientStart
    /\ req = ReqIdle
    /\ initCalls = 0
    /\ initReturned = 0
    /\ firstStored = ClientStart
    /\ reqCalls = 0
    /\ sent = 0
    /\ failed = 0
    /\ gap = NoGap

ResOff == resolved = {}

NoJudgement == [called |-> FALSE, asset_path_name |-> <<>>, filename |-> <<>>, out |-> FALSE]

EligOff == judged = NoJudgement

\* A file: whether it exists, and the chunks written to it.
NoFile == [exists |-> FALSE, text |-> <<>>]

SaveIdle == [pc |-> "idle", depth |-> 0, data |-> <<>>, file |-> NoFile]

SaveOff == sj = SaveIdle

ClsIdle == [pc |-> "idle", n |-> 0, known |-> 0, idx |-> 1, count |-> 0, mem |-> {}]

ClsOff == cls = ClsIdle

AuxOff == CliOff /\ ResOff /\ EligOff /\ SaveOff /\ ClsOff

\* ------------------------------------------------------------ specifications
\* _main has not run: nothing on disk, no locals.
MainIdle ==
    /\ cacheExists = FALSE
    /\ cache = <<>>
    /\ backupFile = [k \in AssetIds |-> "none"]
    /\ pc = "idle"
    /\ all_assets = <<>>
    /\ assets_not_in_use = <<>>
    /\ idx = 1
    /\ count = 0
    /\ should_delete_assets = FALSE
    /\ runs = 0
    /\ prevDone = FALSE
    /\ loadedDeleted = {}
    /\ classified = {}
    /\ classifyCount = [k \in AssetIds |-> 0]
    /\ backupTried = {}
    /\ backupFailed = {}
    /\ delReq = {}

MainOff ==
    /\ cfg = [delete |-> FALSE, answer |-> FALSE, backup |-> FALSE, cont |-> TRUE,
              use_cache |-> TRUE, ignore_path |-> <<>>, ignore_word |-> <<>>]
    /\ remote = <<>>
    /\ folders = RemoteFolders
    /\ MainIdle

\* Before the first run: a space of 1..MaxAssets assets, no cache, no backups.
Init ==
    /\ PagOff
    /\ AuxOff
    /\ cfg \in Configs
    /\ remote \in {[k \in 1..n |-> RemoteAsset(k)] : n \in 1..MaxAssets}
    /\ folders = RemoteFolders
    /\ cacheExists = FALSE
    /\ cache = <<>>
    /\ backupFile = [k \in AssetIds |-> "none"]
    /\ pc = "idle"
    /\ all_assets = <<>>
    /\ assets_not_in_use = <<>>
    /\ idx = 1
    /\ count = 0
    /\ should_delete_assets = FALSE
    /\ runs = 0
    /\ prevDone = FALSE
    /\ loadedDeleted = {}
    /\ classified = {}
    /\ classifyCount = [k \in AssetIds |-> 0]
    /\ backupTried = {}
    /\ backupFailed = {}
    /\ delReq = {}

Next ==
    \/ StartRun
    \/ Load
    \/ LoadFail
    \/ Classify
    \/ ClassifyFail
    \/ Filter
    \/ Confirm
    \/ ActHead
    \/ ActBackup
    \/ ActDelete
    \/ ActSave
    \/ Crash

Spec == Init /\ [][Next]_vars

\* One call of get_all_paginated against a server.
InitPag ==
    /\ MainOff
    /\ AuxOff
    /\ srv \in Servers
    /\ pag = PagStart
    /\ pagPc = "run"
    /\ pagReqs = <<>>
    /\ pagResps = <<>>

NextPag ==
    \/ PagTurn /\ UNCHANGED <<mainVars, auxVars>>
    \/ PagFail /\ UNCHANGED <<mainVars, auxVars>>
    \/ PagReturn /\ UNCHANGED <<mainVars, auxVars>>

SpecPag == InitPag /\ [][NextPag]_vars

\* ====================================================================== claims
BothConfirmed == cfg.backup /\ cfg.delete /\ cfg.answer

\* The folder path FILTER gives the asset.
PathOf(asset) == folder_id_to_path_name(folders, asset.asset_folder_id).path

\* The asset matches an entry of a blacklist.
Blacklisted(asset) ==
    \/ \E k \in DOMAIN cfg.ignore_path : cfg.ignore_path[k] = PathOf(asset)
    \/ \E k \in DOMAIN cfg.ignore_word :
          /\ Len(cfg.ignore_word[k]) > 0
          /\ IsSubstring(cfg.ignore_word[k], asset.filename)

\* The positions of all_assets that hold the asset of this id.
At(id) == {k \in DOMAIN all_assets : all_assets[k].id = id}

\* C1: with backup and delete both requested and confirmed, every asset a DELETE
\* was requested for has a complete backup at its backup path.
C1_DeleteOnlyAfterCompleteBackup ==
    BothConfirmed => \A a \in delReq : backupFile[a] = "complete"

\* C2: a DELETE is requested only for an asset of this run that is not in use,
\* was not marked deleted when the run loaded it, has to_be_deleted true and
\* matches no blacklist entry.
C2_DeleteOnlyEligible ==
    \A a \in delReq :
        /\ At(a) # {}
        /\ a \notin loadedDeleted
        /\ \A k \in At(a) :
              /\ all_assets[k].is_in_use = "false"
              /\ all_assets[k].to_be_deleted = "true"
              /\ ~Blacklisted(all_assets[k])

\* C2's case: a DELETE was requested in a finished run that also holds an asset
\* that is in use, blacklisted or already deleted.
C2_Witness ==
    /\ delReq # {}
    /\ pc = "done"
    /\ \E k \in DOMAIN all_assets :
          /\ all_assets[k].id \notin delReq
          /\ \/ all_assets[k].is_in_use = "true"
             \/ all_assets[k].is_in_use = "false" /\ Blacklisted(all_assets[k])
             \/ all_assets[k].id \in loadedDeleted

\* C3: with backup and delete both requested, backup_asset was called for an
\* asset before the DELETE for it is requested.
C3_BackupAttemptBeforeDelete ==
    (cfg.backup /\ cfg.delete) => delReq \subseteq backupTried

\* C3's case: with backup and delete requested, two assets were deleted.
C3_Witness == cfg.backup /\ cfg.delete /\ Cardinality(delReq) >= 2

\* C4: with --no-continue-download-on-failure, a failed backup download ends the
\* run at that asset: no DELETE for it, is_deleted not set on it, and no later
\* asset backed up or deleted.
C4_FailedBackupAborts ==
    (cfg.backup /\ ~cfg.cont) =>
        \A a \in backupFailed :
            /\ pc = "aborted"
            /\ Cur.id = a
            /\ a \notin delReq
            /\ Cur.is_deleted # "true"
            /\ \A j \in (idx + 1)..Len(assets_not_in_use) :
                  all_assets[assets_not_in_use[j]].id \notin (backupTried \cup delReq)

\* C4's case: deletion confirmed, the download of an eligible asset failed, and
\* an eligible asset comes after it.
C4_Witness ==
    /\ BothConfirmed /\ ~cfg.cont
    /\ backupFailed # {}
    /\ should_delete_assets
    /\ \E j \in (idx + 1)..Len(assets_not_in_use) :
          all_assets[assets_not_in_use[j]].to_be_deleted = "true"

\* C5: unless deletion was requested and the answer to the prompt was yes, no
\* DELETE is requested and no asset is marked deleted, in memory or in the cache.
C5_NoDeleteUnlessConfirmed ==
    ~(cfg.delete /\ cfg.answer) =>
        /\ delReq = {}
        /\ \A k \in DOMAIN all_assets : all_assets[k].is_deleted # "true"
        /\ \A k \in DOMAIN cache : cache[k].is_deleted # "true"

\* C5's case: deletion requested, the answer was no, and the ACT loop has gone
\* through an eligible asset.
C5_Witness ==
    /\ cfg.delete /\ ~cfg.answer
    /\ pc = "done"
    /\ \E k \in DOMAIN all_assets : all_assets[k].to_be_deleted = "true"

\* C6: with caching on, the run after a run that ran to its end makes no
\* classification request and no DELETE request.
C6_SecondRunDoesNothing ==
    (cfg.use_cache /\ runs >= 2 /\ prevDone) => classified = {} /\ delReq = {}

Visited(k) == pc # "load" /\ (pc = "classify" => k < idx)

\* C8: an asset CLASSIFY has visited that is in use never has to_be_deleted
\* true, in memory or in the cache file.
C8_InUseNeverToBeDeleted ==
    /\ \A k \in DOMAIN all_assets :
          (Visited(k) /\ all_assets[k].is_in_use = "true")
              => all_assets[k].to_be_deleted # "true"
    /\ \A k \in DOMAIN cache :
          cache[k].is_in_use = "true" => cache[k].to_be_deleted # "true"

\* C8's case: the cache file holds an asset in use beside one to be deleted,
\* and a later run has loaded and filtered them.
C8_Witness ==
    /\ runs >= 2
    /\ pc = "act"
    /\ \E k \in DOMAIN all_assets : all_assets[k].is_in_use = "true"
    /\ \E k \in DOMAIN all_assets : all_assets[k].to_be_deleted = "true"
    /\ \E k \in DOMAIN cache : cache[k].is_in_use = "true"
    /\ \E k \in DOMAIN cache : cache[k].to_be_deleted = "true"

\* The pages 1..k requested in order.
Counting(reqs) == \A k \in DOMAIN reqs : reqs[k] = k

\* C9: against a well-behaved server holding n items with distinct ids,
\* get_all_paginated requests the pages 1, 2, ... in order, at most
\* n \div 100 + 1 of them, and returns the n items once each in the server's
\* order; for n = 250 it returns after exactly the requests of pages 1, 2, 3.
C9_GoodServerAllItemsOnce ==
    srv.mode = "good" =>
        /\ Counting(pagReqs)
        /\ Len(pagReqs) <= (srv.n \div PerPage) + 1
        /\ pagPc = "returned" =>
              /\ pag.all_items = Collection(srv.n)
              /\ srv.n = 250 => pagReqs = <<1, 2, 3>>

\* C9's case: the call has returned from a well-behaved server of 250 items.
C9_Witness == srv.mode = "good" /\ srv.n = 250 /\ pagPc = "returned"

\* The items of the responses, one list.
RECURSIVE Concat(_)
Concat(pages) == IF pages = <<>> THEN <<>> ELSE Head(pages) \o Concat(Tail(pages))

\* The response k has a non-empty id set equal to that of the response before.
SameIdsAsBefore(k) ==
    /\ k >= 2
    /\ PageIds(pagResps[k]) # {}
    /\ PageIds(pagResps[k]) = PageIds(pagResps[k - 1])

PagTurnBeyond ==
    /\ pagPc = "run"
    /\ pag.looping
    /\ srv.mode = "any"
    /\ pag.page > MaxPages
    /\ \E new_items \in ServerPages(srv, pag.page), total_raw \in ServerTotals(srv) :
          LET st == PagStep(pag, new_items, total_raw)
          IN  pag' = IF st.looping
                     THEN [st EXCEPT !.page = pag.page, !.all_items = pag.all_items]
                     ELSE st
    /\ UNCHANGED <<srv, pagPc, pagReqs, pagResps>>

\* A request after page MaxPages fails.
PagFailBeyond ==
    /\ pagPc = "run"
    /\ pag.looping
    /\ srv.mode = "any"
    /\ pag.page > MaxPages
    /\ pagPc' = "failed"
    /\ UNCHANGED <<srv, pag, pagReqs, pagResps>>

NextPagLive ==
    \/ NextPag
    \/ PagTurnBeyond /\ UNCHANGED <<mainVars, auxVars>>
    \/ PagFailBeyond /\ UNCHANGED <<mainVars, auxVars>>

\* The call keeps running: the loop is sequential code and every request
\* returns or raises (timeout=30, a bounded number of retries).
SpecPagLive == InitPag /\ [][NextPagLive]_vars /\ WF_vars(NextPagLive)

\* C11: for every server behaviour get_all_paginated eventually returns a list
\* or fails.
C11_AlwaysEnds == <>(pagPc \in {"returned", "failed"})

\* ======================================================== StoryblokClient calls
SpaceIds == {"", "s1", "s2"}
Tokens == {"", "t1"}
RegionArgs == {"eu", "us", "zz"}

\* init_client(space_id, token, region): the attributes after the call and
\* whether it returned. An unknown region raises KeyError after the space id
\* and the token were stored.
init_client(c, space_id, token, region) ==
    IF is_initialized(c)
    THEN [client |-> c, returned |-> FALSE]
    ELSE IF region \in DOMAIN _REGION_TO_BASE_URLS
         THEN [client |-> [space_id |-> space_id, token |-> token,
                           base_url |-> _REGION_TO_BASE_URLS[region]],
               returned |-> TRUE]
         ELSE [client |-> [c EXCEPT !.space_id = space_id, !.token = token],
               returned |-> FALSE]

InitClient ==
    /\ req.pc # "run"
    /\ initCalls < MaxCalls
    /\ \E space_id \in SpaceIds, token \in Tokens, region \in RegionArgs :
          LET r == init_client(client, space_id, token, region)
          IN  /\ client' = r.client
              /\ initReturned' = IF r.returned THEN initReturned + 1 ELSE initReturned
              /\ firstStored' = IF r.returned /\ initReturned = 0 THEN r.client
                                ELSE firstStored
    /\ initCalls' = initCalls + 1
    /\ UNCHANGED <<req, reqCalls, sent, failed, gap>>

Digits == {"0", "1", "2", "3", "4", "5", "6", "7", "8", "9"}

DigitVal(c) ==
    CASE c = "0" -> 0 [] c = "1" -> 1 [] c = "2" -> 2 [] c = "3" -> 3 [] c = "4" -> 4
      [] c = "5" -> 5 [] c = "6" -> 6 [] c = "7" -> 7 [] c = "8" -> 8 [] c = "9" -> 9

RECURSIVE NumeralValue(_)
NumeralValue(s) ==
    IF Len(s) = 0 THEN 0
    ELSE 10 * NumeralValue(SubSeq(s, 1, Len(s) - 1)) + DigitVal(s[Len(s)])

\* float(retry_after) for the header values of RetryAfters: a string of digits
\* is that many seconds, anything else raises ValueError (ok = FALSE).
float(s) ==
    IF Len(s) > 0 /\ \A i \in 1..Len(s) : s[i] \in Digits
    THEN [ok |-> TRUE, v |-> NumeralValue(s) * TicksPerSecond]
    ELSE [ok |-> FALSE, v |-> 0]

\* Retry-After as a server sends it: absent, empty, delay-seconds, an HTTP-date.
RetryAfters ==
    {[present |-> FALSE, text |-> <<>>],
     [present |-> TRUE, text |-> <<>>],
     [present |-> TRUE, text |-> <<"0">>],
     [present |-> TRUE, text |-> <<"2">>],
     [present |-> TRUE, text |-> <<"W", "e", "d">>]}

\* What one HTTP attempt can get.
Outcomes ==
    {[kind |-> "exception", status |-> 0, retry_after |-> [present |-> FALSE, text |-> <<>>]]}
    \cup {[kind |-> "response", status |-> st, retry_after |-> [present |-> FALSE, text |-> <<>>]]
            : st \in {200, 500}}
    \cup {[kind |-> "response", status |-> TooManyRequests, retry_after |-> h]
            : h \in RetryAfters}

\* The sleep at the top of an iteration.
TopDelay(attempt) ==
    IF attempt > 0 THEN BaseDelay * Pow2(attempt - 1) ELSE FirstDelay

MayRetryAlways(attempt, max_retries) == TRUE

MayRetry(attempt, max_retries) == attempt < max_retries

\* The sleep of the 429 branch before its continue.
RetryAfterSleep(h) ==
    IF h.present /\ h.text # <<>> /\ float(h.text).ok THEN float(h.text).v ELSE 0

\* The sleep of the except branch before its continue.
ExceptionSleep(attempt) == BaseDelay * Pow2(attempt)

ReqCall ==
    /\ req.pc # "run"
    /\ reqCalls < MaxCalls
    /\ reqCalls' = reqCalls + 1
    /\ \E max_retries \in 0..MaxRetriesArg :
          req' = IF is_initialized(client)
                 THEN [ReqIdle EXCEPT !.pc = "run", !.max_retries = max_retries]
                 ELSE [ReqIdle EXCEPT !.pc = "raised", !.max_retries = max_retries,
                                      !.result = [kind |-> "RuntimeError",
                                                  carries |-> NoOutcome]]
    /\ sent' = 0
    /\ failed' = 0
    /\ gap' = NoGap
    /\ UNCHANGED <<client, initCalls, initReturned, firstStored>>

\* One iteration of the for loop of request, or its end.
ReqAttempt ==
    /\ req.pc = "run"
    /\ IF req.attempt > req.max_retries
       THEN /\ req' = [req EXCEPT !.pc = "raised",
                                  !.result = [kind |-> "RuntimeError", carries |-> NoOutcome]]
            /\ UNCHANGED <<sent, failed, gap>>
       ELSE \E out \in Outcomes :
              LET bad == out.kind = "exception" \/ out.status = TooManyRequests
                  again == MayRetry(req.attempt, req.max_retries)
              IN  /\ sent' = sent + 1
                  /\ failed' = IF bad THEN failed + 1 ELSE failed
                  /\ gap' = IF req.attempt > 0
                            THEN [after |-> req.last, attempt |-> req.attempt - 1,
                                  wait |-> req.pending + TopDelay(req.attempt)]
                            ELSE gap
                  /\ req' =
                       IF ~bad
                       THEN [req EXCEPT !.pc = "returned", !.last = out, !.pending = 0,
                                        !.result = [kind |-> "response", carries |-> out]]
                       ELSE IF again
                       THEN [req EXCEPT !.attempt = req.attempt + 1, !.last = out,
                                        !.pending = IF out.kind = "exception"
                                                    THEN ExceptionSleep(req.attempt)
                                                    ELSE RetryAfterSleep(out.retry_after)]
                       ELSE [req EXCEPT !.pc = "raised", !.last = out, !.pending = 0,
                                        !.result = [kind |-> IF out.kind = "exception"
                                                             THEN "RequestException"
                                                             ELSE "HTTPError",
                                                    carries |-> out]]
    /\ UNCHANGED <<client, initCalls, initReturned, firstStored, reqCalls>>

InitClientSpec ==
    /\ PagOff
    /\ MainOff
    /\ AuxOff

NextClient ==
    \/ InitClient /\ UNCHANGED <<pagVars, mainVars, resVars, eligVars, saveVars, clsVars>>
    \/ ReqCall /\ UNCHANGED <<pagVars, mainVars, resVars, eligVars, saveVars, clsVars>>
    \/ ReqAttempt /\ UNCHANGED <<pagVars, mainVars, resVars, eligVars, saveVars, clsVars>>

SpecClient == InitClientSpec /\ [][NextClient]_vars

\* The call is in its second attempt, the first got a 429 with a usable
\* Retry-After, and the second got a response that is returned.
RetriedOnceAfterRetryAfter ==
    /\ req.pc = "returned"
    /\ req.attempt = 1
    /\ gap.after.status = TooManyRequests
    /\ float(gap.after.retry_after.text).ok

\* C12: a 429 with Retry-After: d followed by a success makes exactly one retry,
\* waits exactly d between the 429 and the retry, and returns the success.
C12_RetryAfterExactWait ==
    RetriedOnceAfterRetryAfter =>
        /\ sent = 2
        /\ gap.wait = float(gap.after.retry_after.text).v
        /\ req.result = [kind |-> "response", carries |-> req.last]

\* C13: a call makes at most max_retries + 1 HTTP attempts and then ends; it
\* returns a response that is not a 429, or, every attempt having got a 429 or an
\* exception, raises an error carrying the last response or exception.
C13_BoundedAttempts ==
    /\ sent <= req.max_retries + 1
    /\ req.pc = "run" => sent = req.attempt /\ req.attempt <= req.max_retries
    /\ req.pc = "returned" =>
          /\ req.result.kind = "response"
          /\ req.result.carries.kind = "response"
          /\ req.result.carries.status # TooManyRequests
    /\ req.pc = "raised" /\ sent > 0 =>
          /\ sent = req.max_retries + 1
          /\ failed = sent
          /\ req.result.kind \in {"HTTPError", "RequestException"}
          /\ req.result.carries = req.last

C13_Witness ==
    /\ req.pc = "raised"
    /\ req.max_retries = 2
    /\ sent = 3
    /\ req.last.status = TooManyRequests
    /\ gap.after.kind = "exception"

\* C14: no request is issued before init_client has returned, at most one call
\* of init_client ever returns, and after it the stored attributes never change.
C14_WriteOnce ==
    /\ initReturned = 0 => sent = 0 /\ req.pc # "run"
    /\ initReturned <= 1
    /\ initReturned >= 1 => client = firstStored

\* ======================================================= folder path resolution
MaxFolders == 3      \* folders of a folder set

Letters == <<"a", "b", "c", "d", "e", "f">>

\* The id of the k-th folder, as the API gives it (an integer).
FolderIdOf(k) == "i:" \o ToString(k)

MissingId == "i:99"

\* Folder sets of distinct ids: each parent_id is a root sentinel, the id of a
\* folder of the set (itself included, so there are cycles), or of no folder.
FolderSets ==
    UNION {
      { [k \in 1..n |-> [id |-> FolderIdOf(k), name |-> <<Letters[k]>>, parent_id |-> par[k]]]
          : par \in [1..n -> RootSentinels \cup {FolderIdOf(j) : j \in 1..n} \cup {MissingId}] }
      : n \in 1..MaxFolders }

\* The folder reached from folder_id by k parent links, "out" when the chain
\* has left the set before (a root sentinel or a missing parent).
RECURSIVE Climb(_, _, _)
Climb(fs, folder_id, k) ==
    IF folder_id \notin FolderIds(fs) THEN "out"
    ELSE IF k = 0 THEN folder_id
    ELSE Climb(fs, FolderById(fs, folder_id).parent_id, k - 1)

\* folder_id is on a cycle of parent links or leads into one.
LeadsToCycle(fs, folder_id) == Climb(fs, folder_id, Len(fs)) # "out"

Acyclic(fs) == \A id \in FolderIds(fs) : ~LeadsToCycle(fs, id)

\* One call get_folder_path_name(folder["id"]) of the comprehension.
ResolveFolder ==
    /\ \E id \in FolderIds(folders) :
          /\ \A x \in resolved : x.id # id
          /\ resolved' = resolved \cup {[id |-> id,
                                         r |-> get_folder_path_name(folders, id, Len(folders))]}
    /\ UNCHANGED <<pagVars, mainVars, cliVars, eligVars, saveVars, clsVars>>

InitFolders ==
    /\ PagOff
    /\ CliOff
    /\ EligOff
    /\ SaveOff
    /\ ClsOff
    /\ cfg = [delete |-> FALSE, answer |-> FALSE, backup |-> FALSE, cont |-> TRUE,
              use_cache |-> TRUE, ignore_path |-> <<>>, ignore_word |-> <<>>]
    /\ remote = <<>>
    /\ folders \in FolderSets
    /\ MainIdle
    /\ resolved = {}

NextFolders == ResolveFolder

SpecFolders == InitFolders /\ [][NextFolders]_vars

\* C15: in an acyclic folder set a folder resolves to "/" + name when its
\* parent_id is a root sentinel or the id of no folder, and else to the resolved
\* path of its parent, "/" and its name.
C15_ResolvedPath ==
    Acyclic(folders) =>
        \A x \in resolved :
            LET folder == FolderById(folders, x.id)
            IN  /\ x.r.ok
                /\ folder.parent_id \in RootSentinels \/ folder.parent_id \notin FolderIds(folders)
                      => x.r.path = Slash \o folder.name
                /\ folder.parent_id \notin RootSentinels /\ folder.parent_id \in FolderIds(folders)
                      => \A y \in resolved :
                            y.id = folder.parent_id => x.r.path = y.r.path \o Slash \o folder.name

\* A chain of three folders resolved to the bottom, and a folder under a
\* missing parent.
C15_Witness ==
    /\ Acyclic(folders)
    /\ \E x \in resolved : x.r.path = <<"/", "a", "/", "b", "/", "c">>
    /\ \E x, y \in resolved :
          /\ FolderById(folders, x.id).parent_id = y.id
          /\ FolderById(folders, y.id).parent_id = MissingId

\* C16: resolving a folder on a cycle of parent links, or leading into one,
\* fails with FolderCycleError.
C16_CycleDetected ==
    \A x \in resolved :
        LeadsToCycle(folders, x.id) => ~x.r.ok /\ x.r.error = "FolderCycleError"

\* ================================================================ FILTER alone
\* asset["asset_folder_id"] as a space can hold it: the root (None and the other
\* root sentinels), a folder, a folder that is not in the collection.
AssetFolderIds == RootSentinels \cup {FolderIdOf(1), MissingId}

\* Runs of _main up to the summary of FILTER, over every such space. Of the
\* arguments only --cache, --ignore-path and --ignore-word are read that far.
InitFilter ==
    /\ PagOff
    /\ AuxOff
    /\ cfg \in {c \in Configs : ~c.delete /\ ~c.backup}
    /\ remote \in UNION {[1..n -> {[id |-> k, asset_folder_id |-> f, filename |-> <<"a">>]
                                      : k \in AssetIds, f \in AssetFolderIds}] : n \in 1..MaxAssets}
    /\ \A k \in DOMAIN remote : remote[k].id = k
    /\ folders = RemoteFolders
    /\ MainIdle

NextFilter ==
    \/ StartRun
    \/ Load
    \/ LoadFail
    \/ Classify
    \/ ClassifyFail
    \/ Filter
    \/ Crash

SpecFilter == InitFilter /\ [][NextFilter]_vars

\* The path FILTER is to give an asset: "/" at the root and under a folder id
\* that is not in the collection, the folder's resolved path otherwise.
ToleratedPath(asset) ==
    IF asset.asset_folder_id \in RootSentinels \/ asset.asset_folder_id \notin FolderIds(folders)
    THEN Slash
    ELSE get_folder_path_name(folders, asset.asset_folder_id, Len(folders)).path

\* C17: FILTER gets through every not-in-use, not-deleted asset without failing,
\* with path "/" for an asset_folder_id that is a root sentinel or has no entry
\* in the folder collection.
C17_FilterToleratesFolderIds ==
    [][pc = "classify" /\ pc' # "classify" /\ assets_not_in_use' # <<>> =>
          /\ pc' = "confirm"
          /\ \A j \in DOMAIN assets_not_in_use' :
                LET asset == all_assets'[assets_not_in_use'[j]]
                IN  asset.to_be_deleted =
                        B(should_be_deleted(cfg, ToleratedPath(asset), asset.filename))]_vars

\* =========================================================== should_be_deleted
MaxWords == 2        \* --ignore-word options given

IgnoreWords == {<<>>, <<"l", "o">>, <<"a">>}

IgnorePathLists == {<<>>, << <<"/", "F">> >>, << <<"/", "F">>, <<"/", "G", "/", "H">> >>}

IgnoreWordLists == UNION {[1..n -> IgnoreWords] : n \in 0..MaxWords}

AssetPathNames == {<<"/">>, <<"/", "F">>, <<"/", "F", "/", "G">>, <<"/", "F", "F">>,
                   <<"/", "G">>, <<"/", "G", "/", "H">>}

Filenames == {<<>>, <<"a">>, <<"b">>, <<"x", "l", "o">>, <<"l", "x", "o">>, <<"o", "l">>}

\* One call should_be_deleted(asset_path_name, asset["filename"]).
Judge ==
    /\ \E asset_path_name \in AssetPathNames, filename \in Filenames :
          judged' = [called |-> TRUE, asset_path_name |-> asset_path_name,
                      filename |-> filename,
                      out |-> should_be_deleted(cfg, asset_path_name, filename)]
    /\ UNCHANGED <<pagVars, mainVars, cliVars, resVars, saveVars, clsVars>>

InitElig ==
    /\ PagOff
    /\ CliOff
    /\ ResOff
    /\ SaveOff
    /\ ClsOff
    /\ \E ip \in IgnorePathLists, iw \in IgnoreWordLists :
          cfg = [delete |-> FALSE, answer |-> FALSE, backup |-> FALSE, cont |-> TRUE,
                 use_cache |-> TRUE, ignore_path |-> ip, ignore_word |-> iw]
    /\ remote = <<>>
    /\ folders = RemoteFolders
    /\ MainIdle
    /\ judged = NoJudgement

NextElig == Judge

SpecElig == InitElig /\ [][NextElig]_vars

\* The path is one of the blacklisted paths, character for character.
PathListed(asset_path_name) ==
    \E k \in DOMAIN cfg.ignore_path :
        /\ Len(cfg.ignore_path[k]) = Len(asset_path_name)
        /\ \A i \in 1..Len(asset_path_name) : cfg.ignore_path[k][i] = asset_path_name[i]

\* A blacklisted word that is not empty occurs in the filename.
WordFound(filename) ==
    \E k \in DOMAIN cfg.ignore_word :
        LET word == cfg.ignore_word[k]
        IN  /\ Len(word) > 0
            /\ \E pre, post \in 0..Len(filename) :
                  /\ pre + Len(word) + post = Len(filename)
                  /\ \A i \in 1..Len(word) : filename[pre + i] = word[i]

\* C18: should_be_deleted is false exactly when the path equals a blacklisted
\* path or a non-empty blacklisted word is a substring of the filename.
C18_ExactPathOrWord ==
    judged.called =>
        judged.out = ~(PathListed(judged.asset_path_name) \/ WordFound(judged.filename))

\* A path under a blacklisted path, and an empty word in the list, with a
\* filename the other word is not in: the asset stays eligible.
C18_Witness ==
    /\ judged.called
    /\ judged.out
    /\ judged.asset_path_name = <<"/", "F", "/", "G">>
    /\ InList(<<"/", "F">>, cfg.ignore_path)
    /\ InList(<<>>, cfg.ignore_word)
    /\ InList(<<"l", "o">>, cfg.ignore_word)
    /\ judged.filename = <<"l", "x", "o">>

\* ==================================================================== save_json
MaxDoc == 2          \* items of the document saved
MaxInterrupts == 2   \* KeyboardInterrupts during one save

\* json.dump(data, file): the chunks it writes, in order.
Chunks(data) == <<"[">> \o [k \in DOMAIN data |-> ToString(data[k])] \o <<"]">>

\* The file parses as a JSON document.
IsDocument(file) ==
    /\ file.exists
    /\ Len(file.text) >= 2
    /\ file.text[1] = "["
    /\ file.text[Len(file.text)] = "]"

\* save_json(file_path, data) is called; the file is absent or holds an older
\* complete snapshot.
InitSave ==
    /\ PagOff
    /\ MainOff
    /\ CliOff
    /\ ResOff
    /\ EligOff
    /\ ClsOff
    /\ \E n \in 0..MaxDoc, old \in {0} \cup (1..(MaxDoc + 1)) :
          sj = [pc |-> "try", depth |-> 0, data |-> [k \in 1..n |-> k],
                file |-> IF old = 0 THEN NoFile
                         ELSE [exists |-> TRUE, text |-> Chunks([k \in 1..(old - 1) |-> k])]]

\* open(file_path, "w"): the file is created or truncated.
SaveOpen ==
    /\ sj.pc = "try"
    /\ sj' = [sj EXCEPT !.pc = "dump", !.file = [exists |-> TRUE, text |-> <<>>]]

\* json.dump writes the next chunk.
SaveWrite ==
    /\ sj.pc = "dump"
    /\ Len(sj.file.text) < Len(Chunks(sj.data))
    /\ sj' = [sj EXCEPT !.file.text = Append(@, Chunks(sj.data)[Len(@) + 1])]

\* The with block ends and the call returns: to main's caller when no handler
\* is active, else into the handler that made the call, whose `raise e` leaves
\* every enclosing handler and ends the process in main.
SaveReturn ==
    /\ sj.pc = "dump"
    /\ Len(sj.file.text) = Len(Chunks(sj.data))
    /\ sj' = [sj EXCEPT !.pc = IF sj.depth = 0 THEN "returned" ELSE "terminated"]

\* KeyboardInterrupt inside the try block: the except clause of this call
\* takes it.
InterruptInTry ==
    /\ sj.pc \in {"try", "dump"}
    /\ sj.depth < MaxInterrupts
    /\ sj' = [sj EXCEPT !.pc = "handler", !.depth = sj.depth + 1]

\* The handler prints and calls save_json again.
SaveAgain ==
    /\ sj.pc = "handler"
    /\ sj' = [sj EXCEPT !.pc = "try"]

\* KeyboardInterrupt inside the except clause, before the try block of the
\* call it makes: nothing catches it before main, the process ends.
InterruptInHandler ==
    /\ sj.pc = "handler"
    /\ sj' = [sj EXCEPT !.pc = "terminated"]

NextSave ==
    \/ SaveOpen /\ UNCHANGED <<pagVars, mainVars, cliVars, resVars, eligVars, clsVars>>
    \/ SaveWrite /\ UNCHANGED <<pagVars, mainVars, cliVars, resVars, eligVars, clsVars>>
    \/ SaveReturn /\ UNCHANGED <<pagVars, mainVars, cliVars, resVars, eligVars, clsVars>>
    \/ InterruptInTry /\ UNCHANGED <<pagVars, mainVars, cliVars, resVars, eligVars, clsVars>>
    \/ SaveAgain /\ UNCHANGED <<pagVars, mainVars, cliVars, resVars, eligVars, clsVars>>
    \/ InterruptInHandler /\ UNCHANGED <<pagVars, mainVars, cliVars, resVars, eligVars, clsVars>>

SpecSave == InitSave /\ [][NextSave]_vars

\* C19: whenever the process ends after interrupts of a save, the cache file,
\* if there is one, holds a complete document, never a truncated one.
C19_NeverTruncated == sj.pc = "terminated" /\ sj.file.exists => IsDocument(sj.file)

\* ==================================================================== deletion
\* C20: is_deleted becomes true on an asset only in the step in which its
\* DELETE succeeded (the space lost the asset); a DELETE that fails ends the
\* run there, the asset unmarked, and an ended run does nothing more.
C20_FailedDeleteIsFatal ==
    [][/\ \A k \in DOMAIN all_assets \cap DOMAIN all_assets' :
             all_assets[k].is_deleted # "true" /\ all_assets'[k].is_deleted = "true" =>
                /\ pc = "act_delete"
                /\ k = assets_not_in_use[idx]
                /\ all_assets[k].id \in Ids(remote) \ Ids(remote')
       /\ pc = "act_delete" /\ delReq' # delReq /\ remote' = remote =>
             /\ pc' = "aborted"
             /\ all_assets' = all_assets
             /\ idx' = idx
       /\ pc = "aborted" => pc' = "aborted" \/ runs' = runs + 1]_vars

\* A DELETE has failed on the first of two assets to delete: the run is over,
\* the asset is still in the space and unmarked, the second was not reached.
C20_Witness ==
    /\ pc = "aborted"
    /\ Len(assets_not_in_use) = 2
    /\ idx = 1
    /\ Cur.id \in delReq
    /\ Cur.id \in Ids(remote)
    /\ Cur.is_deleted # "true"
    /\ all_assets[assets_not_in_use[2]].to_be_deleted = "true"

\* ===================================================================== resuming
\* C21: with caching on, no DELETE request is made for an asset an earlier
\* DELETE already removed from the space, whatever run was interrupted where.
C21_NoSecondDelete ==
    [][cfg.use_cache => \A id \in delReq' \ delReq : id \in Ids(remote)]_vars

\* ====================================================================== backoff
\* The failed attempt before the latest retry was an exception, or a 429 whose
\* Retry-After header is absent, empty or not a number.
RetriedWithoutRetryAfter ==
    /\ sent >= 2
    /\ \/ gap.after.kind = "exception"
       \/ /\ gap.after.status = TooManyRequests
          /\ ~(gap.after.retry_after.present /\ float(gap.after.retry_after.text).ok)

\* C22: the wait between a failed attempt of index a and the next attempt is
\* base_delay * 2^a, after a 429 without a usable Retry-After and after a
\* network exception alike.
C22_SameBackoff ==
    RetriedWithoutRetryAfter => gap.wait = BaseDelay * Pow2(gap.attempt)

\* ============================================== CLASSIFY with its saves in steps
MaxUnclassified == 50    \* assets of the space

\* The assets whose is_in_use a later run finds in the file: those of the
\* document, when the file is one; none when json.load fails on it.
PersistedIn(file) ==
    IF IsDocument(file)
    THEN {k \in 1..cls.n : \E i \in DOMAIN file.text : file.text[i] = ToString(k)}
    ELSE {}

\* The classifications of this run a process ending now loses.
Unsaved == cls.mem \ PersistedIn(sj.file)

\* The loop over all_assets starts: n assets, the first `known` of them with
\* is_in_use in the cache file they were loaded from.
InitClassify ==
    /\ PagOff
    /\ MainOff
    /\ CliOff
    /\ ResOff
    /\ EligOff
    /\ \E n \in 1..MaxUnclassified, known \in 0..1 :
          /\ cls = [pc |-> "loop", n |-> n, known |-> known, idx |-> 1, count |-> 0,
                    mem |-> {}]
          /\ sj = [pc |-> "idle", depth |-> 0, data |-> <<>>,
                   file |-> [exists |-> TRUE, text |-> Chunks([k \in 1..known |-> k])]]

\* One turn of the loop up to the test of count: an asset with is_in_use is
\* passed, another is classified; every SavePeriod-th of these calls save_json.
ClassifyTurn ==
    /\ cls.pc = "loop"
    /\ cls.idx <= cls.n
    /\ IF cls.idx <= cls.known
       THEN /\ cls' = [cls EXCEPT !.idx = cls.idx + 1]
            /\ UNCHANGED sj
       ELSE IF (cls.count + 1) % SavePeriod = 0
       THEN /\ cls' = [cls EXCEPT !.pc = "save", !.count = cls.count + 1,
                                  !.mem = cls.mem \cup {cls.idx}]
            /\ sj' = [sj EXCEPT !.pc = "try", !.depth = 0,
                                !.data = [k \in 1..cls.idx |-> k]]
       ELSE /\ cls' = [cls EXCEPT !.idx = cls.idx + 1, !.count = cls.count + 1,
                                  !.mem = cls.mem \cup {cls.idx}]
            /\ UNCHANGED sj
    /\ UNCHANGED <<pagVars, mainVars, cliVars, resVars, eligVars>>

\* A step of the save_json call of the loop.
ClassifySave ==
    /\ cls.pc = "save"
    /\ \/ SaveOpen
       \/ SaveWrite
       \/ SaveReturn
       \/ InterruptInTry
       \/ SaveAgain
       \/ InterruptInHandler
    /\ UNCHANGED <<pagVars, mainVars, cliVars, resVars, eligVars, clsVars>>

\* save_json has returned: the next asset.
ClassifySaved ==
    /\ cls.pc = "save"
    /\ sj.pc = "returned"
    /\ cls' = [cls EXCEPT !.pc = "loop", !.idx = cls.idx + 1]
    /\ sj' = [sj EXCEPT !.pc = "idle"]
    /\ UNCHANGED <<pagVars, mainVars, cliVars, resVars, eligVars>>

\* The loop is over: CLASSIFY ends, without a save.
ClassifyEnd ==
    /\ cls.pc = "loop"
    /\ cls.idx > cls.n
    /\ cls' = [cls EXCEPT !.pc = "filter"]
    /\ UNCHANGED <<pagVars, mainVars, cliVars, resVars, eligVars, saveVars>>

\* The process ends during CLASSIFY: killed at any point, interrupted outside
\* save_json, or by the KeyboardInterrupt save_json has let through.
ClassifyCrash ==
    /\ cls.pc \in {"loop", "save"}
    /\ cls' = [cls EXCEPT !.pc = "terminated"]
    /\ UNCHANGED <<pagVars, mainVars, cliVars, resVars, eligVars, saveVars>>

NextClassify ==
    \/ ClassifyTurn
    \/ ClassifySave
    \/ ClassifySaved
    \/ ClassifyEnd
    \/ ClassifyCrash

SpecClassify == InitClassify /\ [][NextClassify]_vars

\* C23: a process that ends at any point of CLASSIFY loses at most 25
\* classifications of the run, whatever the number of assets.
C23_AtMostOneBatchLost ==
    cls.pc = "terminated" => Cardinality(Unsaved) <= SavePeriod

\* ================================================================== stop rules
\* The total the server has reported up to this response, if any.
ReportedTotal(st, total_raw) ==
    IF st.total_from_header.set THEN st.total_from_header ELSE ParseTotal(total_raw)

\* The page has ids, and they are those of the page before.
RepeatsPage(st, new_items) ==
    /\ st.page > 1
    /\ st.previous_page_ids.set
    /\ PageIds(new_items) # {}
    /\ PageIds(new_items) = st.previous_page_ids.ids

Stop(items) == [all_items |-> items, looping |-> FALSE, page |-> 0]

\* The reference procedure in the order total, duplicate, short page, next.
RulesTotalFirst(st, new_items, total_raw) ==
    LET total == ReportedTotal(st, total_raw)
        all == st.all_items \o new_items
    IN  IF total.set /\ Len(all) >= total.v THEN Stop(all)
        ELSE IF RepeatsPage(st, new_items) THEN Stop(st.all_items)
        ELSE IF Len(new_items) < PerPage THEN Stop(all)
        ELSE [all_items |-> all, looping |-> TRUE, page |-> st.page + 1]

\* The reference procedure in the order duplicate, total, short page, next.
RulesDuplicateFirst(st, new_items, total_raw) ==
    LET total == ReportedTotal(st, total_raw)
        all == st.all_items \o new_items
    IN  IF RepeatsPage(st, new_items) THEN Stop(st.all_items)
        ELSE IF total.set /\ Len(all) >= total.v THEN Stop(all)
        ELSE IF Len(new_items) < PerPage THEN Stop(all)
        ELSE [all_items |-> all, looping |-> TRUE, page |-> st.page + 1]

\* What a turn of the loop decides: the items so far, and the next page.
Decision(st) == [all_items |-> st.all_items, looping |-> st.looping, page |-> st.page]

\* C24: wherever a call stands, on every response the loop decides
\* as the rules in the order total, duplicate, short page, next.
C24_TotalFirst ==
    pagPc = "run" /\ pag.looping =>
        \A new_items \in ServerPages(srv, pag.page), total_raw \in ServerTotals(srv) :
            Decision(PagStep(pag, new_items, total_raw))
                = RulesTotalFirst(pag, new_items, total_raw)

\* C24, with the duplicate test first. A page that repeats the
\* page before ends the call unappended even when its items would bring the
\* count to the reported total; then total, short page, next.
C24_DuplicateFirst ==
    pagPc = "run" /\ pag.looping =>
        \A new_items \in ServerPages(srv, pag.page), total_raw \in ServerTotals(srv) :
            Decision(PagStep(pag, new_items, total_raw))
                = RulesDuplicateFirst(pag, new_items, total_raw)

\* The call has ended on a second page that repeats the first and would have
\* brought the count to the reported total: the page was not appended.
C24_Witness ==
    /\ pagPc = "returned"
    /\ Len(pagResps) = 2
    /\ PageIds(pagResps[2]) # {}
    /\ PageIds(pagResps[2]) = PageIds(pagResps[1])
    /\ pag.total_from_header.set
    /\ Len(pagResps[1]) + Len(pagResps[2]) >= pag.total_from_header.v
    /\ pag.all_items = pagResps[1]

====
